---- MODULE Spec2Model ----
(***************************************************************************)
(* crabst: download statistics for the crates of a crates.io user.         *)
(* The model follows src/main.rs: handle_user_option (user lookup, crate   *)
(* listing, the last-n-days window, the buffer_unordered(3) stream of      *)
(* spawned fetch tasks, the shared Mutex<HashMap>, the progress bar),      *)
(* get_crate_downloads_multi and print_crates_table; and, for the report   *)
(* of one crate, handle_crate_option and print_downloads_table.            *)
(*                                                                         *)
(* Dates are day numbers (NaiveDate has day resolution); crate names are   *)
(* the numbers 1..k of the listing; a download count is a natural number.  *)
(***************************************************************************)
EXTENDS Integers, Sequences, FiniteSets, TLC

\* ------------------------------------------------------------- bounds
\* Largest crate listing the registry returns for the user.
MaxCrates == 4
\* Largest value of the -l option.
MaxDays == 2
\* Longest raw download history in the aggregation-only specification.
MaxEvents == 2
\* Longest crate listing in the table-only specification.
MaxRows == 2

\* ---------------------------------------------------- program constants
\* buffer_unordered(3)
BufferLimit == 3
\* "} else { 1 }": the window length when -l is absent.
DefaultLastNDay == 1
\* The UTC day on which the run starts.
Today == 10

\* ------------------------------------------------------------ the state
VARIABLES
    main_pc,                \* where handle_user_option is
    now,                    \* the wall clock (Utc::now()), as a day number
    crates,                 \* crates.crates: the listing, a sequence of Crate
    last_n_day,             \* the parsed -l option
    i,                      \* the loop variable of  for i in 0..last_n_day
    days,                   \* the Vec<NaiveDate> of the window
    limit,                  \* the buffer_unordered argument
    next_crate,             \* position of stream::iter in crates.crates
    in_progress,            \* JoinHandles held by buffer_unordered
    collected,              \* handles the stream has yielded to collect()
    task_pc,                \* where each spawned task is
    crate_downloads,        \* per task: the Result of client.crate_downloads
    download_count,         \* per task: get_crate_downloads_multi's result
    crate_n_day_downloads,  \* the shared HashMap behind the Mutex
    lock_holder,            \* the task holding the Mutex (0: free)
    lock_waiters,           \* tokio's FIFO queue of tasks awaiting the Mutex
    pb,                     \* the progress bar: its message and state
    table,                  \* the rows handed to the renderer
    twin_of,                \* second run: the crate whose fetch outcome differs
    twin_count,             \* second run: download_count per task
    twin_map,               \* second run: the shared HashMap
    api_error,              \* the Err a registry call of the set-up returned
    insert_order            \* log: the keys in the order they were inserted

vars == <<main_pc, now, crates, last_n_day, i, days, limit, next_crate,
          in_progress, collected, task_pc, crate_downloads, download_count,
          crate_n_day_downloads, lock_holder, lock_waiters, pb, table,
          twin_of, twin_count, twin_map, api_error, insert_order>>

\* ------------------------------------------------------------- helpers
NoResult == [ok |-> FALSE, pending |-> TRUE, version_downloads |-> <<>>]
FetchErr == [ok |-> FALSE, pending |-> FALSE, version_downloads |-> <<>>]
FetchOk(h) == [ok |-> TRUE, pending |-> FALSE, version_downloads |-> h]

\* No registry call of the set-up has failed.
NoError == "none"

EmptyMap == [k \in {} |-> 0]

\* HashMap::insert: the key is added or its value replaced.
MapInsert(m, k, v) == [x \in DOMAIN m \cup {k} |-> IF x = k THEN v ELSE m[x]]

\* Vec::reverse
Reverse(s) == [j \in 1..Len(s) |-> s[Len(s) + 1 - j]]

\* The registry's listing of the user's crates (alphabetical, distinct names).
Listing(k) == [c \in 1..k |-> [name |-> c, downloads |-> 50 * c]]

\* The raw history the registry holds for a crate: an unsorted list with two
\* versions on one date, a zero count and a date far outside any window.
History(name) ==
    << [version |-> 2, date |-> Today, downloads |-> name],
       [version |-> 1, date |-> Today - 1, downloads |-> 5],
       [version |-> 1, date |-> Today - 9, downloads |-> 7],
       [version |-> 2, date |-> Today - 1, downloads |-> 3],
       [version |-> 1, date |-> Today, downloads |-> 0] >>

\* What client.crate_downloads(name) may return.
Outcomes(name) == {FetchErr, FetchOk(History(name))}

\* ------------------------------------------- get_crate_downloads_multi
\* Mutant: a later event of the date overwrites the earlier ones.
RECURSIVE FilterFoldOverwrite(_, _, _)
FilterFoldOverwrite(version_downloads, d, init) ==
    IF version_downloads = <<>> THEN init
    ELSE LET vd == Head(version_downloads) IN
         FilterFoldOverwrite(Tail(version_downloads), d,
                             IF vd.date = d THEN vd.downloads ELSE init)

\* .filter(|vd| vd.date == *d).fold(0, |init, cd| init + cd.downloads)
RECURSIVE FilterFold(_, _, _)
FilterFold(version_downloads, d, init) ==
    IF version_downloads = <<>> THEN init
    ELSE LET vd == Head(version_downloads) IN
         FilterFold(Tail(version_downloads), d,
                    IF vd.date = d THEN init + vd.downloads ELSE init)

dcount(result, d) ==
    IF result.ok THEN FilterFold(result.version_downloads, d, 0) ELSE 0

\* dates.iter().for_each(|d| { ...; result.insert(d.clone(), dcount) })
RECURSIVE ForEachDate(_, _, _)
ForEachDate(result, dates, acc) ==
    IF dates = <<>> THEN acc
    ELSE ForEachDate(result, Tail(dates),
                     MapInsert(acc, Head(dates), dcount(result, Head(dates))))

\* Mutant: a failed fetch returns early with an empty map.
get_crate_downloads_multi_early(result, dates) ==
    IF result.ok THEN ForEachDate(result, dates, EmptyMap) ELSE EmptyMap

get_crate_downloads_multi(result, dates) == ForEachDate(result, dates, EmptyMap)

\* ---------------------------------------------------- print_crates_table
\* header_vec: the two fixed titles, then date.format("%Y-%m-%d") per day.
FormatDate(d) == <<"%Y-%m-%d", d>>

\* Mutant: the dates are titled newest first (the Vec before days.reverse()).
header_vec_newest_first(ds) ==
    <<"Crate Name", "Download Count">> \o
    [j \in 1..Len(ds) |-> FormatDate(ds[Len(ds) + 1 - j])]

header_vec(ds) ==
    <<"Crate Name", "Download Count">> \o [j \in 1..Len(ds) |-> FormatDate(ds[j])]

\* default_zero_hash: every day of the window mapped to 0.
RECURSIVE default_zero_hash(_)
default_zero_hash(ds) ==
    IF ds = <<>> THEN EmptyMap
    ELSE MapInsert(default_zero_hash(Tail(ds)), Head(ds), 0)

\* Mutant: the fallback of a missing day is 1.
GetOrOne(m, d) == IF d \in DOMAIN m THEN m[d] ELSE 1

\* .get(day).unwrap_or(&0)
GetOrZero(m, d) == IF d \in DOMAIN m THEN m[d] ELSE 0

\* daily_downloads.get(&c.name).unwrap_or(&default_zero_hash)
GetOrDefault(daily_downloads, name, ds) ==
    IF name \in DOMAIN daily_downloads THEN daily_downloads[name]
    ELSE default_zero_hash(ds)

\* One data row: name, lifetime downloads, then one cell per day.
DataRow(c, daily_downloads, ds) ==
    <<c.name, c.downloads>> \o
    [j \in 1..Len(ds) |-> GetOrZero(GetOrDefault(daily_downloads, c.name, ds), ds[j])]

\* crates.iter().fold(0, |init, c| init + c.downloads)
RECURSIVE FoldDownloads(_, _)
FoldDownloads(cs, init) ==
    IF cs = <<>> THEN init
    ELSE FoldDownloads(Tail(cs), init + Head(cs).downloads)

\* The sum of a set of numbers.
RECURSIVE SumSet(_)
SumSet(S) ==
    IF S = {} THEN 0
    ELSE LET x == CHOOSE y \in S : TRUE IN x + SumSet(S \ {x})

\* Mutant: the values of a day are collected into a set before they are
\* summed, so equal counts of two crates are counted once.
SumValuesDistinct(daily_downloads, keys, d) ==
    SumSet({GetOrZero(daily_downloads[k], d) : k \in keys})

\* daily_downloads.values().map(|m| m.get(day).unwrap_or(&0)).sum::<u64>()
RECURSIVE SumValues(_, _, _)
SumValues(daily_downloads, keys, d) ==
    IF keys = {} THEN 0
    ELSE LET k == CHOOSE x \in keys : TRUE IN
         GetOrZero(daily_downloads[k], d) + SumValues(daily_downloads, keys \ {k}, d)

TotalRow(cs, daily_downloads, ds) ==
    <<"Total", FoldDownloads(cs, 0)>> \o
    [j \in 1..Len(ds) |-> SumValues(daily_downloads, DOMAIN daily_downloads, ds[j])]

\* Mutant: the data rows follow the map, in the order of its insertions.
print_crates_table_as_inserted(cs, daily_downloads, ds) ==
    [header |-> header_vec(ds),
     rows |-> [r \in 1..Len(insert_order.keys) |->
                  DataRow(cs[CHOOSE x \in 1..Len(cs) : cs[x].name = insert_order.keys[r]],
                          daily_downloads, ds)]
              \o <<TotalRow(cs, daily_downloads, ds)>>]

\* The rows handed to the renderer: the header, one row per crate of the
\* listing in its order (crates.iter()), and the totals row.
print_crates_table(cs, daily_downloads, ds) ==
    [header |-> header_vec(ds),
     rows |-> [r \in 1..Len(cs) |-> DataRow(cs[r], daily_downloads, ds)]
              \o <<TotalRow(cs, daily_downloads, ds)>>]

NoTable == [header |-> <<>>, rows |-> <<>>]

\* ------------------------------------------------------------------ Init
InitLog(max, twin, log) ==
    /\ main_pc = "user"
    /\ now = Today
    /\ crates = <<>>
    /\ last_n_day = 0
    /\ i = 0
    /\ days = <<>>
    /\ limit = max
    /\ next_crate = 1
    /\ in_progress = {}
    /\ collected = 0
    /\ task_pc = <<>>
    /\ crate_downloads = <<>>
    /\ download_count = <<>>
    /\ crate_n_day_downloads = EmptyMap
    /\ lock_holder = 0
    /\ lock_waiters = <<>>
    /\ pb = [message |-> <<>>, finished |-> FALSE]
    /\ table = NoTable
    /\ twin_of = twin
    /\ twin_count = <<>>
    /\ twin_map = EmptyMap
    /\ api_error = NoError
    /\ insert_order = [on |-> log, keys |-> <<>>]

\* The insertion log is kept only where a claim is about the insertion order.
InitWith(max, twin) == InitLog(max, twin, FALSE)

\* The program: buffer_unordered(3), one run.
Init == InitWith(BufferLimit, 0)

Tasks == 1..Len(crates)

\* --------------------------------------------- handle_user_option: set-up
\* Mutant: the Err is dropped and the function goes on.
ExpectIgnored(ok, next_pc) == next_pc

\* Result::expect: the function goes on with the Ok value, or panics.
Expect(ok, next_pc) == IF ok THEN next_pc ELSE "panic"

\* client.user(&user_name).await.expect(...)
GetUser(ok) ==
    /\ main_pc = "user"
    /\ api_error' = IF ok THEN NoError ELSE "user"
    /\ main_pc' = Expect(ok, "crates")
    /\ UNCHANGED <<now, crates, last_n_day, i, days, limit, next_crate,
                   in_progress, collected, task_pc, crate_downloads,
                   download_count, crate_n_day_downloads, lock_holder,
                   lock_waiters, pb, table,
                   twin_of, twin_count, twin_map,
                   insert_order>>

\* client.crates(...).await.expect(...): a listing of k crates, or a failure.
GetCrates(ok, k) ==
    /\ main_pc = "crates"
    /\ api_error' = IF ok THEN NoError ELSE "crates"
    /\ main_pc' = Expect(ok, "last_n_day")
    /\ IF ok
       THEN /\ crates' = Listing(k)
            /\ task_pc' = [c \in 1..k |-> "idle"]
            /\ crate_downloads' = [c \in 1..k |-> NoResult]
            /\ download_count' = [c \in 1..k |-> EmptyMap]
            /\ twin_count' = [c \in 1..k |-> EmptyMap]
       ELSE UNCHANGED <<crates, task_pc, crate_downloads, download_count,
                        twin_count>>
    /\ UNCHANGED <<now, last_n_day, i, days, limit, next_crate, in_progress,
                   collected, crate_n_day_downloads, lock_holder, lock_waiters,
                   pb, table, twin_of, twin_map,
                   insert_order>>

\* let last_n_day = if matches.opt_present("l") { opt_get(..) } else { 1 };
\* present is FALSE when -l is absent; parsed is FALSE when it is no number.
ParseLastNDay(present, parsed, n) ==
    /\ main_pc = "last_n_day"
    /\ IF present /\ ~parsed
       THEN /\ main_pc' = "panic"
            /\ UNCHANGED last_n_day
       ELSE /\ main_pc' = "days"
            /\ last_n_day' = IF present THEN n ELSE DefaultLastNDay
    /\ i' = 0
    /\ UNCHANGED <<now, crates, days, limit, next_crate, in_progress,
                   collected, task_pc, crate_downloads, download_count,
                   crate_n_day_downloads, lock_holder, lock_waiters, pb, table,
                   twin_of, twin_count, twin_map,
                   api_error, insert_order>>

\* i.days().ago().as_date(): the clock is read here, in every iteration.
DaysAgo(n, clock) == clock - n

\* One iteration of  for i in 0..last_n_day { days.push(i.days().ago()...) }
PushDay ==
    /\ main_pc = "days"
    /\ i < last_n_day
    /\ days' = Append(days, DaysAgo(i, now))
    /\ i' = i + 1
    /\ UNCHANGED <<main_pc, now, crates, last_n_day, limit, next_crate,
                   in_progress, collected, task_pc, crate_downloads,
                   download_count, crate_n_day_downloads, lock_holder,
                   lock_waiters, pb, table,
                   twin_of, twin_count, twin_map,
                   api_error, insert_order>>

\* Midnight (UTC) passes. The clock is only read by the loop above, so its
\* advance is modelled between two of its readings (an earlier midnight only
\* moves the whole run to the next day). A run lasts seconds: it sees at most
\* one midnight.
Tick ==
    /\ main_pc = "days"
    /\ 0 < i /\ i < last_n_day
    /\ now = Today
    /\ now' = now + 1
    /\ UNCHANGED <<main_pc, crates, last_n_day, i, days, limit, next_crate,
                   in_progress, collected, task_pc, crate_downloads,
                   download_count, crate_n_day_downloads, lock_holder,
                   lock_waiters, pb, table,
                   twin_of, twin_count, twin_map,
                   api_error, insert_order>>

\* The loop ends: days.reverse(); the spinner is created and given its message;
\* the stream is built (lazily: nothing is spawned before it is polled).
EndDays ==
    /\ main_pc = "days"
    /\ i = last_n_day
    /\ days' = Reverse(days)
    /\ pb' = [message |-> <<"Fetching crates infos...">>, finished |-> FALSE]
    /\ main_pc' = "collect"
    /\ UNCHANGED <<now, crates, last_n_day, i, limit, next_crate, in_progress,
                   collected, task_pc, crate_downloads, download_count,
                   crate_n_day_downloads, lock_holder, lock_waiters, table,
                   twin_of, twin_count, twin_map,
                   api_error, insert_order>>

\* ------------------------------------ the stream: buffer_unordered(limit)
\* Mutant: the buffer takes one future too many (<= for <).
HasRoomOffByOne(held, max) == held <= max

\* BufferUnordered polls the underlying stream while it holds fewer than
\* `max` futures.
HasRoom(held, max) == held < max

\* stream::iter(crates.crates) is exhausted.
Exhausted == next_crate > Len(crates)

\* Mutant: the iterator does not advance.
NextItemSame(n) == n

\* Iterator::next of stream::iter: the position moves on by one.
NextItem(n) == n + 1

\* The stream is polled for its next item: the map closure runs, and
\* tokio::spawn starts the task of the next crate.
Spawn ==
    /\ main_pc = "collect"
    /\ ~Exhausted
    /\ HasRoom(Cardinality(in_progress), limit)
    /\ task_pc' = [task_pc EXCEPT ![next_crate] = "fetch"]
    /\ in_progress' = in_progress \cup {next_crate}
    /\ next_crate' = NextItem(next_crate)
    /\ UNCHANGED <<main_pc, now, crates, last_n_day, i, days, limit, collected,
                   crate_downloads, download_count, crate_n_day_downloads,
                   lock_holder, lock_waiters, pb, table,
                   twin_of, twin_count, twin_map,
                   api_error, insert_order>>

\* ------------------------------------------------------- a spawned task
\* Mutant: the key is not unique per crate (two names share one key).
InsertKeyColliding(c) == (crates[c].name + 1) \div 2

\* The key under which task c inserts: crate_info.name.
InsertKey(c) == crates[c].name

\* The second run is the same run, step for step, except that the fetch of
\* crate twin_of ends the other way (it fails where it succeeded here, and
\* succeeds where it failed). The outcome of a fetch is only data to the
\* task (the match of get_crate_downloads_multi), so the same interleaving
\* is a run of the program in both.
TwinResult(c, r) ==
    IF c # twin_of THEN r
    ELSE IF r.ok THEN FetchErr ELSE FetchOk(History(crates[c].name))

\* Mutant: lock() returns a guard at once, whoever holds the Mutex.
LockIsFreeAlways(holder) == TRUE

\* Mutex::lock() gets the guard at once only when no task holds it.
LockIsFree(holder) == holder = 0

\* client.crate_downloads(crate_name).await returns r; the rest of
\* get_crate_downloads_multi runs, and the task asks for the Mutex: it gets
\* it at once when it is free, and queues (FIFO) otherwise.
FetchReturn(c, r) ==
    /\ task_pc[c] = "fetch"
    /\ crate_downloads' = [crate_downloads EXCEPT ![c] = r]
    /\ download_count' = [download_count EXCEPT ![c] = get_crate_downloads_multi(r, days)]
    /\ twin_count' = [twin_count EXCEPT
                          ![c] = get_crate_downloads_multi(TwinResult(c, r), days)]
    /\ IF LockIsFree(lock_holder)
       THEN /\ lock_holder' = c
            /\ task_pc' = [task_pc EXCEPT ![c] = "insert"]
            /\ UNCHANGED lock_waiters
       ELSE /\ lock_waiters' = Append(lock_waiters, c)
            /\ task_pc' = [task_pc EXCEPT ![c] = "wait"]
            /\ UNCHANGED lock_holder
    /\ UNCHANGED <<main_pc, now, crates, last_n_day, i, days, limit, next_crate,
                   in_progress, collected, crate_n_day_downloads, pb, table,
                   twin_of, twin_map,
                   api_error, insert_order>>

\* Mutant: the tasks share one result slot, so a task inserts the result of
\* the fetch that returned most recently in spawn order.
InsertValueShared(counts, c) ==
    counts[CHOOSE x \in Tasks :
              /\ ~crate_downloads[x].pending
              /\ \A y \in Tasks : ~crate_downloads[y].pending => y <= x]

\* The value task c inserts: its own download_count.
InsertValue(counts, c) == counts[c]

\* Mutant: the guard is kept until the task ends, which the Mutex never sees.
UnlockNever(c, waiters) == c

\* Dropping the MutexGuard: tokio hands the Mutex to the first waiter, or
\* leaves it free (0).
Unlock(c, waiters) == IF waiters = <<>> THEN 0 ELSE Head(waiters)

\* .insert(crate_info.name.clone(), download_count); the guard is dropped at
\* the end of the statement.
Insert(c) ==
    /\ task_pc[c] = "insert"
    /\ lock_holder = c
    /\ crate_n_day_downloads' =
           MapInsert(crate_n_day_downloads, InsertKey(c), InsertValue(download_count, c))
    /\ twin_map' = MapInsert(twin_map, InsertKey(c), InsertValue(twin_count, c))
    /\ insert_order' = IF insert_order.on
                       THEN [insert_order EXCEPT !.keys = Append(@, InsertKey(c))]
                       ELSE insert_order
    /\ LET h == Unlock(c, lock_waiters) IN
       /\ lock_holder' = h
       /\ lock_waiters' = IF h \notin {0, c} THEN Tail(lock_waiters) ELSE lock_waiters
       /\ task_pc' = [x \in DOMAIN task_pc |->
                         IF x = c THEN "message"
                         ELSE IF x = h THEN "insert" ELSE task_pc[x]]
    /\ UNCHANGED <<main_pc, now, crates, last_n_day, i, days, limit, next_crate,
                   in_progress, collected, crate_downloads, download_count,
                   pb, table, twin_of, twin_count,
                   api_error>>

\* inner_pb.set_message(format!("Fetching {} info...", name)); inner_pb.tick();
\* the task's future then completes and its JoinHandle becomes ready.
SetMessage(c) ==
    /\ task_pc[c] = "message"
    /\ pb' = [pb EXCEPT !.message = <<"Fetching ", crates[c].name, " info...">>]
    /\ task_pc' = [task_pc EXCEPT ![c] = "done"]
    /\ UNCHANGED <<main_pc, now, crates, last_n_day, i, days, limit, next_crate,
                   in_progress, collected, crate_downloads, download_count,
                   crate_n_day_downloads, lock_holder, lock_waiters, table,
                   twin_of, twin_count, twin_map,
                   api_error, insert_order>>

\* Mutant: the handle is ready as soon as the task has done its insert.
HandleReadyAfterInsert(pc) == pc \in {"message", "done"}

\* A JoinHandle is ready once its task has run to its end.
HandleReady(pc) == pc = "done"

\* Mutant: the handles are awaited as a batch (chunks of the buffer's size,
\* each joined as a whole): none is yielded before all of them are ready.
ReadyToYieldBatch(c, held) ==
    c \in held /\ \A x \in held : HandleReady(task_pc[x])

\* FuturesUnordered yields any handle it holds that is ready.
ReadyToYield(c, held) == c \in held /\ HandleReady(task_pc[c])

\* BufferUnordered yields a ready JoinHandle to collect(). Each poll first
\* fills the buffer, so a handle is yielded only when the buffer is full or
\* the underlying stream is exhausted.
Join(c) ==
    /\ main_pc = "collect"
    /\ ReadyToYield(c, in_progress)
    /\ Exhausted \/ ~HasRoom(Cardinality(in_progress), limit)
    /\ in_progress' = in_progress \ {c}
    /\ collected' = collected + 1
    /\ UNCHANGED <<main_pc, now, crates, last_n_day, i, days, limit, next_crate,
                   task_pc, crate_downloads, download_count,
                   crate_n_day_downloads, lock_holder, lock_waiters, pb, table,
                   twin_of, twin_count, twin_map,
                   api_error, insert_order>>

\* Mutant: the stream ends as soon as the underlying stream is exhausted.
StreamEndedEarly(exhausted, held) == exhausted

\* The buffered stream ends: the underlying stream is exhausted and no
\* handle is left in the buffer.
StreamEnded(exhausted, held) == exhausted /\ held = {}

\* download_futures.collect::<Vec<_>>().await returns;
\* pb.finish_with_message("Finished gathering crate info!")
Finish ==
    /\ main_pc = "collect"
    /\ StreamEnded(Exhausted, in_progress)
    /\ pb' = [message |-> <<"Finished gathering crate info!">>, finished |-> TRUE]
    /\ main_pc' = "output"
    /\ UNCHANGED <<now, crates, last_n_day, i, days, limit, next_crate,
                   in_progress, collected, task_pc, crate_downloads,
                   download_count, crate_n_day_downloads, lock_holder,
                   lock_waiters, table,
                   twin_of, twin_count, twin_map,
                   api_error, insert_order>>

\* -o g is todo!(); otherwise the map is locked, cloned and printed.
Output(output_type) ==
    /\ main_pc = "output"
    /\ IF output_type = "g"
       THEN /\ main_pc' = "panic"
            /\ UNCHANGED table
       ELSE /\ lock_holder = 0
            /\ table' = print_crates_table(crates, crate_n_day_downloads, days)
            /\ main_pc' = "done"
    /\ UNCHANGED <<now, crates, last_n_day, i, days, limit, next_crate,
                   in_progress, collected, task_pc, crate_downloads,
                   download_count, crate_n_day_downloads, lock_holder,
                   lock_waiters, pb,
                   twin_of, twin_count, twin_map,
                   api_error, insert_order>>

\* ------------------------------------------------------ the specification
Next ==
    \/ \E ok \in BOOLEAN : GetUser(ok)
    \/ \E ok \in BOOLEAN, k \in 0..MaxCrates : GetCrates(ok, k)
    \/ \E present, parsed \in BOOLEAN, n \in 0..MaxDays : ParseLastNDay(present, parsed, n)
    \/ PushDay
    \/ Tick
    \/ EndDays
    \/ Spawn
    \/ \E c \in Tasks : \E r \in Outcomes(crates[c].name) : FetchReturn(c, r)
    \/ \E c \in Tasks : Insert(c)
    \/ \E c \in Tasks : SetMessage(c)
    \/ \E c \in Tasks : Join(c)
    \/ Finish
    \/ \E output_type \in {"t", "g"} : Output(output_type)

Spec == Init /\ [][Next]_vars

\* The same program for every buffer size from 1 to one more than its own.
InitConc == \E max \in 1..(BufferLimit + 1) : InitWith(max, 0)
SpecConc == InitConc /\ [][Next]_vars

\* The program beside a second run in which one crate's fetch ends the other way.
InitIso == \E twin \in 1..(BufferLimit + 1) : InitWith(BufferLimit, twin)
SpecIso == InitIso /\ [][Next]_vars

\* The program run without -l (the window is the default single day), with
\* the log of the insertions kept.
InitOrder == InitLog(BufferLimit, 0, TRUE)
NextOrder ==
    \/ \E ok \in BOOLEAN : GetUser(ok)
    \/ \E ok \in BOOLEAN, k \in 0..MaxCrates : GetCrates(ok, k)
    \/ ParseLastNDay(FALSE, FALSE, 0)
    \/ PushDay
    \/ EndDays
    \/ Spawn
    \/ \E c \in Tasks : \E r \in Outcomes(crates[c].name) : FetchReturn(c, r)
    \/ \E c \in Tasks : Insert(c)
    \/ \E c \in Tasks : SetMessage(c)
    \/ \E c \in Tasks : Join(c)
    \/ Finish
    \/ \E output_type \in {"t", "g"} : Output(output_type)
SpecOrder == InitOrder /\ [][NextOrder]_vars

\* Scheduling: tokio polls every task that can run, every fetch returns, and
\* collect() is polled whenever a handle is ready or the buffer has room.
TaskStep(c) ==
    /\ c \in Tasks
    /\ \/ \E r \in Outcomes(crates[c].name) : FetchReturn(c, r)
       \/ Insert(c)
       \/ SetMessage(c)
MainStep == Spawn \/ (\E c \in Tasks : Join(c)) \/ Finish
FairSpec ==
    Spec /\ WF_vars(MainStep) /\ \A c \in 1..MaxCrates : WF_vars(TaskStep(c))

\* ------------------------------------------------- aggregation on its own
\* One crate and every raw history of up to MaxEvents events: two versions,
\* the dates of the longest window and the day before it, three counts.
Events ==
    [version : {1, 2}, date : (Today - MaxDays)..Today, downloads : {0, 3, 5}]
SeqsUpTo(S, n) == UNION {[1..m -> S] : m \in 0..n}
AnyOutcomes == {FetchErr} \cup {FetchOk(h) : h \in SeqsUpTo(Events, MaxEvents)}

InitAgg ==
    /\ main_pc = "last_n_day"
    /\ now = Today
    /\ crates = Listing(1)
    /\ last_n_day = 0
    /\ i = 0
    /\ days = <<>>
    /\ limit = BufferLimit
    /\ next_crate = 1
    /\ in_progress = {}
    /\ collected = 0
    /\ task_pc = <<"idle">>
    /\ crate_downloads = <<NoResult>>
    /\ download_count = <<EmptyMap>>
    /\ crate_n_day_downloads = EmptyMap
    /\ lock_holder = 0
    /\ lock_waiters = <<>>
    /\ pb = [message |-> <<>>, finished |-> FALSE]
    /\ table = NoTable
    /\ twin_of = 0
    /\ twin_count = <<EmptyMap>>
    /\ twin_map = EmptyMap
    /\ api_error = NoError
    /\ insert_order = [on |-> FALSE, keys |-> <<>>]

NextAgg ==
    \/ \E present, parsed \in BOOLEAN, n \in 0..MaxDays : ParseLastNDay(present, parsed, n)
    \/ PushDay
    \/ Tick
    \/ EndDays
    \/ Spawn
    \/ task_pc[1] = "fetch" /\ \E r \in AnyOutcomes : FetchReturn(1, r)

SpecAgg == InitAgg /\ [][NextAgg]_vars

\* ------------------------------------------------- handle_crate_option
\* The -c report of one crate. It uses main_pc, crate_downloads (one
\* Result), crates (api_crate.crate_data, once get_crate has returned) and
\* table (what is printed); the scheduler's variables stay as they start.

\* downloads.version_downloads.iter().group_by(|&vd| vd.date) and the fold
\* of each group: itertools starts a new group whenever the key differs from
\* the key of the element before, so only neighbours share a group.
RECURSIVE GroupByDate(_, _)
GroupByDate(version_downloads, acc) ==
    IF version_downloads = <<>> THEN acc
    ELSE LET vd == Head(version_downloads)
             n == Len(acc) IN
         GroupByDate(Tail(version_downloads),
                     IF n > 0 /\ acc[n][1] = vd.date
                     THEN [acc EXCEPT ![n] = <<vd.date, acc[n][2] + vd.downloads>>]
                     ELSE Append(acc, <<vd.date, vd.downloads>>))

\* all_version_downloads as f64 (exact below 2^53).
AsF64(n) == <<"f64", n>>

\* format!("{}", date)
FormatDisplay(d) == <<"{}", d>>

\* The Vec<(NaiveDate, f64)> built by the loop over the groups.
VersionDownloads(result) ==
    LET groups == GroupByDate(result.version_downloads, <<>>) IN
    [j \in 1..Len(groups) |-> <<groups[j][1], AsF64(groups[j][2])>>]

\* print_downloads_table: one row per element, then the "Total" row.
print_downloads_table(downloads, total) ==
    [header |-> <<"Date", "Download Count">>,
     rows |-> [j \in 1..Len(downloads) |-> <<downloads[j][1], downloads[j][2]>>]
              \o <<<<"Total", total>>>>]

\* plot(dc, Config ... with_caption(..)): the series and its caption.
plot(dc, name, total) ==
    [header |-> <<name, " total downloads ", total>>,
     rows |-> [j \in 1..Len(dc) |-> <<dc[j]>>]]

\* What the registry may return for the crate: a failure, the stored
\* history, or any history of up to MaxEvents events.
CrateOutcomes == Outcomes(1) \cup AnyOutcomes

InitCrate ==
    /\ main_pc = "crate_downloads"
    /\ now = Today
    /\ crates = <<>>
    /\ last_n_day = 0
    /\ i = 0
    /\ days = <<>>
    /\ limit = BufferLimit
    /\ next_crate = 1
    /\ in_progress = {}
    /\ collected = 0
    /\ task_pc = <<>>
    /\ crate_downloads = <<NoResult>>
    /\ download_count = <<>>
    /\ crate_n_day_downloads = EmptyMap
    /\ lock_holder = 0
    /\ lock_waiters = <<>>
    /\ pb = [message |-> <<>>, finished |-> FALSE]
    /\ table = NoTable
    /\ twin_of = 0
    /\ twin_count = <<>>
    /\ twin_map = EmptyMap
    /\ api_error = NoError
    /\ insert_order = [on |-> FALSE, keys |-> <<>>]

\* let crate_downloads = client.crate_downloads(&crate_name).await;
\* (the Result is kept: its .expect is commented out)
CrateDownloads(r) ==
    /\ main_pc = "crate_downloads"
    /\ crate_downloads' = <<r>>
    /\ main_pc' = "get_crate"
    /\ UNCHANGED <<now, crates, last_n_day, i, days, limit, next_crate,
                   in_progress, collected, task_pc, download_count,
                   crate_n_day_downloads, lock_holder, lock_waiters, pb, table,
                   twin_of, twin_count, twin_map, api_error, insert_order>>

\* client.get_crate(&crate_name).await.expect(...)
GetCrate(ok) ==
    /\ main_pc = "get_crate"
    /\ api_error' = IF ok THEN NoError ELSE "get_crate"
    /\ main_pc' = Expect(ok, "match")
    /\ crates' = IF ok THEN Listing(1) ELSE crates
    /\ UNCHANGED <<now, last_n_day, i, days, limit, next_crate, in_progress,
                   collected, task_pc, crate_downloads, download_count,
                   crate_n_day_downloads, lock_holder, lock_waiters, pb, table,
                   twin_of, twin_count, twin_map, insert_order>>

\* match crate_downloads { Ok(downloads) => graph or table, Err(_) => println }
MatchDownloads(output_type) ==
    /\ main_pc = "match"
    /\ table' =
          IF crate_downloads[1].ok
          THEN LET version_downloads == VersionDownloads(crate_downloads[1]) IN
               IF output_type = "g"
               THEN plot([j \in 1..Len(version_downloads) |-> version_downloads[j][2]],
                         crates[1].name, crates[1].downloads)
               ELSE print_downloads_table(
                        [j \in 1..Len(version_downloads) |->
                            <<FormatDisplay(version_downloads[j][1]),
                              version_downloads[j][2]>>],
                        crates[1].downloads)
          ELSE [header |-> <<"Failed to get downloads">>, rows |-> <<>>]
    /\ main_pc' = "done"
    /\ UNCHANGED <<now, crates, last_n_day, i, days, limit, next_crate,
                   in_progress, collected, task_pc, crate_downloads,
                   download_count, crate_n_day_downloads, lock_holder,
                   lock_waiters, pb, twin_of, twin_count, twin_map, api_error,
                   insert_order>>

NextCrate ==
    \/ main_pc = "crate_downloads" /\ \E r \in CrateOutcomes : CrateDownloads(r)
    \/ \E ok \in BOOLEAN : GetCrate(ok)
    \/ \E output_type \in {"t", "g"} : MatchDownloads(output_type)

SpecCrate == InitCrate /\ [][NextCrate]_vars

\* ------------------------------------------------ the table on its own
\* print_crates_table applied to every listing of up to MaxRows crates,
\* every window the loop of handle_user_option can leave in `days`, and
\* every HashMap whose keys are names of the listing: an entry may be
\* missing, and an entry may lack a day of the window.
\* The window of n days when midnight passed after t readings of the clock
\* (t = n: it did not pass), after days.reverse().
WindowAt(n, t) ==
    [p \in 1..n |-> LET j == n - p IN
                    DaysAgo(j, IF j < t THEN Today ELSE Today + 1)]
Windows == {<<>>} \cup {WindowAt(n, t) : n \in 1..MaxDays, t \in 1..MaxDays}

CellValues == {0, 3}
PartialMaps(K, V) == UNION {[S -> V] : S \in SUBSET K}

InitTable ==
    /\ main_pc = "output"
    /\ now = Today
    /\ \E k \in 0..MaxRows : crates = Listing(k)
    /\ days \in Windows
    /\ last_n_day = Len(days)
    /\ i = Len(days)
    /\ limit = BufferLimit
    /\ next_crate = Len(crates) + 1
    /\ in_progress = {}
    /\ collected = Len(crates)
    /\ task_pc = [c \in 1..Len(crates) |-> "done"]
    /\ crate_downloads = [c \in 1..Len(crates) |-> NoResult]
    /\ download_count = [c \in 1..Len(crates) |-> EmptyMap]
    /\ crate_n_day_downloads \in
           PartialMaps({crates[c].name : c \in 1..Len(crates)},
                       PartialMaps({days[j] : j \in 1..Len(days)}, CellValues))
    /\ lock_holder = 0
    /\ lock_waiters = <<>>
    /\ pb = [message |-> <<"Finished gathering crate info!">>, finished |-> TRUE]
    /\ table = NoTable
    /\ twin_of = 0
    /\ twin_count = [c \in 1..Len(crates) |-> EmptyMap]
    /\ twin_map = EmptyMap
    /\ api_error = NoError
    /\ insert_order = [on |-> FALSE, keys |-> <<>>]

NextTable == \E output_type \in {"t", "g"} : Output(output_type)

SpecTable == InitTable /\ [][NextTable]_vars

\* ================================================================ claims
Range(seq) == {seq[j] : j \in 1..Len(seq)}

\* Tasks that were spawned and have not run to their end.
InFlight == {c \in Tasks : task_pc[c] \in {"fetch", "wait", "insert", "message"}}

\* The requested package ids.
Ids == {crates[c].name : c \in Tasks}

\* The fetch of task c has returned an error.
Failed(c) == ~crate_downloads[c].pending /\ ~crate_downloads[c].ok

\* Task c has done its insert into the shared map.
Inserted(c) == task_pc[c] \in {"message", "done"}

\* Every date of the window mapped to 0.
ZeroDownloads == [d \in Range(days) |-> 0]

\* C1: at most BufferLimit (3) fetch tasks are started and not yet completed,
\* whatever the number of crates and the order in which the fetches end.
BoundedInFlight == Cardinality(InFlight) <= BufferLimit

\* Three tasks in flight while crates are still queued.
BoundedInFlightWitness ==
    /\ main_pc = "collect"
    /\ Cardinality(InFlight) = BufferLimit
    /\ ~Exhausted

\* C2: once the scheduler has finished, the shared map has exactly one key
\* per requested crate, the k requested ids, for every buffer size and
\* whatever fetches failed.
ResultComplete ==
    pb.finished =>
        /\ DOMAIN crate_n_day_downloads = Ids
        /\ Cardinality(DOMAIN crate_n_day_downloads) = Len(crates)

\* A finished run over the longest listing, with a buffer size other than
\* the program's, one fetch failed and one succeeded.
ResultCompleteWitness ==
    /\ pb.finished
    /\ Len(crates) = MaxCrates
    /\ limit # BufferLimit
    /\ \E c, d \in Tasks : Failed(c) /\ crate_downloads[d].ok

\* C3: a failed fetch does not abort its task: the task goes on to the
\* insert with a DailyDownloads of 0 for every date of the window, the entry
\* under the crate's name is that all-zero map, and the scheduler still
\* spawns every queued crate and runs every task to its end before it
\* finishes.
FailureAbsorbed ==
    /\ \A c \in Tasks : Failed(c) =>
          /\ task_pc[c] \in {"wait", "insert", "message", "done"}
          /\ download_count[c] = ZeroDownloads
          /\ Inserted(c) =>
                /\ crates[c].name \in DOMAIN crate_n_day_downloads
                /\ crate_n_day_downloads[crates[c].name] = ZeroDownloads
    /\ (pb.finished /\ \E c \in Tasks : Failed(c)) =>
          /\ Exhausted
          /\ \A c \in Tasks : task_pc[c] = "done"

\* The first crate's fetch failed and was inserted, over a window of two
\* days, and a crate spawned after that has completed.
FailureAbsorbedWitness ==
    /\ Len(crates) > BufferLimit
    /\ Len(days) = 2
    /\ Failed(1) /\ Inserted(1)
    /\ task_pc[Len(crates)] = "done"
    /\ crate_downloads[Len(crates)].ok

\* The task of the crate with the given name.
TaskOf(name) == CHOOSE c \in Tasks : crates[c].name = name

\* C4: in two runs that differ only in whether the fetch of crate twin_of
\* fails or succeeds, the final entry of every other crate is the same.
FailureIsolated ==
    pb.finished =>
        \A c \in Tasks : c # twin_of =>
            /\ crates[c].name \in DOMAIN crate_n_day_downloads
            /\ crates[c].name \in DOMAIN twin_map
            /\ crate_n_day_downloads[crates[c].name] = twin_map[crates[c].name]

\* Both runs have finished over four crates, the entries of crate twin_of
\* differ between them, and that crate was not the last to insert.
FailureIsolatedWitness ==
    /\ pb.finished
    /\ Len(crates) > BufferLimit
    /\ twin_of \in Tasks
    /\ twin_of < Len(crates)
    /\ crate_n_day_downloads[crates[twin_of].name] # twin_map[crates[twin_of].name]

\* The mapping as a function of the ids, the window and each crate's fetch
\* outcome alone.
ExpectedMap ==
    [name \in Ids |-> get_crate_downloads_multi(crate_downloads[TaskOf(name)], days)]

\* C5: for every buffer size and every completion order, the final mapping
\* is ExpectedMap, and the table is the one built from it.
OrderIndependent ==
    /\ pb.finished => crate_n_day_downloads = ExpectedMap
    /\ main_pc = "done" => table = print_crates_table(crates, ExpectedMap, days)

\* A table was printed after a run with buffer size 1 over four crates in
\* which a fetch failed and another succeeded, over two days.
OrderIndependentWitness ==
    /\ main_pc = "done"
    /\ limit = 1
    /\ Len(crates) > BufferLimit
    /\ Len(days) = 2
    /\ \E c, d \in Tasks : Failed(c) /\ crate_downloads[d].ok

\* C6: the map is read and the table built only after the progress bar is
\* finished; the bar is finished only when every crate has been taken from
\* the stream and every task has inserted and ended; after that no step
\* changes the shared map or the progress bar.
JoinAllBarrier ==
    /\ []((main_pc \in {"output", "done"} \/ table # NoTable) => pb.finished)
    /\ [](pb.finished =>
            /\ Exhausted
            /\ in_progress = {}
            /\ \A c \in Tasks : task_pc[c] = "done" /\ crates[c].name \in DOMAIN crate_n_day_downloads)
    /\ [][pb.finished => (crate_n_day_downloads' = crate_n_day_downloads /\ pb' = pb)]_vars

\* The table was printed after more crates than the buffer holds.
JoinAllBarrierWitness ==
    /\ main_pc = "done"
    /\ Len(crates) > BufferLimit
    /\ collected = Len(crates)

\* The scheduler has finished with every crate spawned, inserted and joined.
AllDone ==
    /\ pb.finished
    /\ Exhausted
    /\ \A c \in Tasks : task_pc[c] = "done"

\* C7: under fair scheduling, with every fetch returning, the scheduler
\* finishes for every listing, and it finishes with every queued crate spawned
\* and every task (those that waited for the Mutex too) run to its end.
Termination == (main_pc = "collect") ~> AllDone

\* A task waits for the Mutex behind another waiter while a crate is still
\* queued.
TerminationWitness ==
    /\ main_pc = "collect"
    /\ ~Exhausted
    /\ Len(lock_waiters) = 2

\* The sum of the counts of the events at the given positions.
RECURSIVE SumAt(_, _)
SumAt(events, positions) ==
    IF positions = {} THEN 0
    ELSE LET j == CHOOSE x \in positions : TRUE IN
         events[j].downloads + SumAt(events, positions \ {j})

\* The total of all events of date d, whatever their version and position.
TotalOn(events, d) == SumAt(events, {j \in 1..Len(events) : events[j].date = d})

\* C8: for every raw history and every window, the aggregated map has
\* exactly the window's dates as keys and holds, at each, the sum of the
\* counts of all events of that date (0 when there is none); and the window
\* 1..3 with events (v1,1,5), (v2,1,3), (v1,2,0) gives {1: 8, 2: 0, 3: 0}.
AggregatesByDate ==
    /\ \A c \in Tasks : crate_downloads[c].ok =>
          /\ DOMAIN download_count[c] = Range(days)
          /\ \A d \in Range(days) :
                download_count[c][d] = TotalOn(crate_downloads[c].version_downloads, d)
    /\ get_crate_downloads_multi(
           FetchOk(<< [version |-> 1, date |-> 1, downloads |-> 5],
                      [version |-> 2, date |-> 1, downloads |-> 3],
                      [version |-> 1, date |-> 2, downloads |-> 0] >>),
           <<1, 2, 3>>)
         = (1 :> 8 @@ 2 :> 0 @@ 3 :> 0)

\* A history of two versions on one date of a two-day window, 5 and 3, was
\* aggregated to 8 at that date and 0 at the other.
AggregatesByDateWitness ==
    /\ Len(days) = 2
    /\ crate_downloads[1].ok
    /\ LET events == crate_downloads[1].version_downloads IN
       /\ Len(events) = 2
       /\ events[1].version # events[2].version
       /\ events[1].date = events[2].date
       /\ events[1].date = days[1]
       /\ events[1].downloads = 5 /\ events[2].downloads = 3
    /\ download_count[1] = (days[1] :> 8 @@ days[2] :> 0)

\* C9 (as claimed): for a window length n >= 1 the window has n dates, ends
\* at the day the run started and each date is one day before the next.
WindowShape ==
    (main_pc \in {"collect", "output", "done"} /\ last_n_day >= 1) =>
        /\ Len(days) = last_n_day
        /\ days[Len(days)] = Today
        /\ \A j \in 1..(Len(days) - 1) : days[j] + 1 = days[j + 1]

\* C10 (as claimed): a window length of 0 is rejected: the run never reaches
\* the scheduler, no task is spawned and no table is built.
ZeroWindowRejected ==
    (main_pc \notin {"user", "crates", "last_n_day"} /\ last_n_day = 0) =>
        /\ main_pc \notin {"collect", "output", "done"}
        /\ \A c \in Tasks : task_pc[c] = "idle"
        /\ table = NoTable

\* The sum of column col over the first n rows.
RECURSIVE ColumnSum(_, _, _)
ColumnSum(rows, n, col) ==
    IF n = 0 THEN 0 ELSE rows[n][col] + ColumnSum(rows, n - 1, col)

\* C11: the printed table has one row per listed crate and then exactly one
\* totals row, the last; the lifetime column of the totals row is the sum of
\* the lifetime downloads of the data rows, and each date column of it is
\* the sum of what the data rows show at that date, for every map whose
\* keys are listed crates (entries may be missing); crates A (100) and B (50)
\* with {A: {d1: 10}, B: {d1: 5}} over [d1] give the totals 150 and 15.
TotalsRowSums ==
    /\ main_pc = "done" =>
          LET rows == table.rows
              n == Len(crates) IN
          /\ Len(rows) = n + 1
          /\ \A r \in 1..n : rows[r][1] = crates[r].name
          /\ rows[n + 1][1] = "Total"
          /\ rows[n + 1][2] = ColumnSum(rows, n, 2)
          /\ \A r \in 1..n : rows[r][2] = crates[r].downloads
          /\ \A j \in 1..Len(days) :
                rows[n + 1][2 + j] = ColumnSum(rows, n, 2 + j)
    /\ print_crates_table(
           << [name |-> 1, downloads |-> 100], [name |-> 2, downloads |-> 50] >>,
           (1 :> (Today :> 10) @@ 2 :> (Today :> 5)),
           <<Today>>).rows[3]
         = <<"Total", 150, 15>>

\* A table of two crates that both show 3 downloads on the first day of a
\* two-day window, one of them with no value for the second day.
TotalsRowSumsWitness ==
    /\ main_pc = "done"
    /\ Len(crates) = 2
    /\ Len(days) = 2
    /\ table.rows[1][3] = 3 /\ table.rows[2][3] = 3
    /\ table.rows[3][3] = 6
    /\ \E name \in DOMAIN crate_n_day_downloads :
          days[2] \notin DOMAIN crate_n_day_downloads[name]

\* C12: the data rows of the printed table are the rows of the listed crates
\* in the order of the listing, one per crate, whatever the order in which
\* the tasks inserted their results.
PresentationOrder ==
    main_pc = "done" =>
        /\ Len(table.rows) = Len(crates) + 1
        /\ \A r \in 1..Len(crates) :
              /\ table.rows[r][1] = crates[r].name
              /\ table.rows[r] = DataRow(crates[r], crate_n_day_downloads, days)

\* A table printed after the third crate of the listing inserted first and
\* the first crate inserted last, with more crates than the buffer holds.
PresentationOrderWitness ==
    /\ main_pc = "done"
    /\ Len(crates) > BufferLimit
    /\ Len(insert_order.keys) = Len(crates)
    /\ insert_order.keys[1] = crates[3].name
    /\ insert_order.keys[Len(crates)] = crates[1].name

\* C13: the header, every data row and the totals row of the printed table
\* have 2 + Len(days) columns; the date columns are titled with the days of
\* the window in its order, which never goes back in time, and each data
\* cell under a date is the crate's value for that date.
GridShape ==
    main_pc = "done" =>
        /\ Len(table.header) = 2 + Len(days)
        /\ \A r \in 1..Len(table.rows) : Len(table.rows[r]) = 2 + Len(days)
        /\ \A j \in 1..Len(days) : table.header[2 + j] = FormatDate(days[j])
        /\ \A j \in 1..(Len(days) - 1) :
              table.header[2 + j][2] <= table.header[2 + j + 1][2]
        /\ \A r \in 1..Len(crates), j \in 1..Len(days) :
              LET name == crates[r].name IN
              (name \in DOMAIN crate_n_day_downloads
                  /\ days[j] \in DOMAIN crate_n_day_downloads[name])
              => table.rows[r][2 + j] = crate_n_day_downloads[name][days[j]]

\* A table over a window of two different days, with two data rows and
\* different values under the two dates of the first.
GridShapeWitness ==
    /\ main_pc = "done"
    /\ Len(crates) = 2
    /\ Len(days) = 2
    /\ days[1] < days[2]
    /\ Len(table.rows) = 3
    /\ table.rows[1][3] # table.rows[1][4]

\* C14: in the printed table the cell of a crate and a date is 0 when the
\* map has no entry for the crate or the entry has no value for the date;
\* the row still has a cell for every date, and the table is built for every
\* such map.
AbsentIsZero ==
    /\ main_pc = "output" => ENABLED Output("t")
    /\ main_pc = "done" =>
          \A r \in 1..Len(crates) :
              /\ Len(table.rows[r]) = 2 + Len(days)
              /\ \A j \in 1..Len(days) :
                    LET name == crates[r].name IN
                    (\/ name \notin DOMAIN crate_n_day_downloads
                     \/ days[j] \notin DOMAIN crate_n_day_downloads[name])
                    => table.rows[r][2 + j] = 0

\* A table of two crates over two days: the first crate has no entry, the
\* second has 3 for the first day and no value for the second.
AbsentIsZeroWitness ==
    /\ main_pc = "done"
    /\ Len(crates) = 2
    /\ Len(days) = 2
    /\ days[1] # days[2]
    /\ DOMAIN crate_n_day_downloads = {crates[2].name}
    /\ crate_n_day_downloads[crates[2].name] = (days[1] :> 3)
    /\ table.rows[1] = <<crates[1].name, crates[1].downloads, 0, 0>>
    /\ table.rows[2] = <<crates[2].name, crates[2].downloads, 3, 0>>

\* C15: when the user lookup or the crate listing fails, the run has
\* panicked: no task was ever spawned, nothing was inserted into the shared
\* map, no table was built, and the run takes no further step.
FatalAbortsEarly ==
    api_error \in {"user", "crates"} =>
        /\ main_pc = "panic"
        /\ next_crate = 1
        /\ in_progress = {}
        /\ collected = 0
        /\ \A c \in Tasks : task_pc[c] = "idle"
        /\ crate_n_day_downloads = EmptyMap
        /\ lock_holder = 0
        /\ ~pb.finished
        /\ table = NoTable
        /\ ~ENABLED Next

\* The user lookup succeeded and the listing of the user's crates failed.
FatalAbortsEarlyWitness ==
    /\ api_error = "crates"
    /\ main_pc = "panic"

\* C16: while crates are still queued and fewer than BufferLimit tasks are
\* in flight, the scheduler is never held up by the tasks still running: it
\* can spawn the next crate at once, or it can take the handle of a task
\* that has ended out of the buffer, and spawn right after that.
FillThePool ==
    (main_pc = "collect" /\ ~Exhausted /\ Cardinality(InFlight) < BufferLimit) =>
        \/ ENABLED Spawn
        \/ \E c \in in_progress :
              /\ task_pc[c] = "done"
              /\ ENABLED Join(c)
              /\ HasRoom(Cardinality(in_progress \ {c}), limit)

\* The first task to end was joined and its place can be filled while the
\* two other tasks of the first three are still fetching.
FillThePoolWitness ==
    /\ main_pc = "collect"
    /\ ~Exhausted
    /\ collected = 1
    /\ Cardinality(in_progress) = BufferLimit - 1
    /\ \A c \in in_progress : task_pc[c] = "fetch"
    /\ ENABLED Spawn

\* The tasks that hold the MutexGuard, inside the insert.
Inserting == {c \in Tasks : task_pc[c] = "insert"}

\* C17: at most one task at a time is inside the insert on the shared map,
\* and it is the task that holds the Mutex; the map is read for the table
\* only when the Mutex is free and every spawned task has ended and no crate
\* is left to spawn, so that no task writes it or may still write it.
SerializedAccess ==
    /\ Cardinality(Inserting) <= 1
    /\ \A c \in Inserting : lock_holder = c
    /\ lock_holder # 0 => lock_holder \in Inserting
    /\ \A w \in Range(lock_waiters) : task_pc[w] = "wait" /\ lock_holder # 0
    /\ (main_pc \in {"output", "done"} \/ table # NoTable) =>
          /\ lock_holder = 0
          /\ lock_waiters = <<>>
          /\ Exhausted
          /\ \A c \in Tasks : task_pc[c] = "done"

\* One task is inside the insert while two others wait for the Mutex.
SerializedAccessWitness ==
    /\ Cardinality(Inserting) = 1
    /\ Len(lock_waiters) = 2
    /\ \A w \in Range(lock_waiters) : ~crate_downloads[w].pending

\* C18 (as claimed): the window is a function of its length and one
\* reference day: whatever the clock does while the dates are computed, the
\* window is the last_n_day consecutive days that end at one day of the
\* clock.
WindowFromOneReading ==
    main_pc \in {"collect", "output", "done"} =>
        \E reference \in {Today, Today + 1} :
            days = [j \in 1..last_n_day |-> reference - (last_n_day - j)]

\* The dates that occur in a history.
DatesOf(events) == {events[j].date : j \in 1..Len(events)}

\* C19 (as claimed): in the table of the -c report, for any order of the
\* events, every date of the events has exactly one row, and the row shows
\* the sum of the counts of all events of that date, over all versions.
OneRowPerDate ==
    (main_pc = "done" /\ crate_downloads[1].ok /\ table.header = <<"Date", "Download Count">>) =>
        LET events == crate_downloads[1].version_downloads
            data == SubSeq(table.rows, 1, Len(table.rows) - 1) IN
        \A d \in DatesOf(events) :
            /\ Cardinality({r \in 1..Len(data) : data[r][1] = FormatDisplay(d)}) = 1
            /\ \A r \in 1..Len(data) :
                  data[r][1] = FormatDisplay(d) => data[r][2] = AsF64(TotalOn(events, d))

\* How far a task has come.
Rank(pc) ==
    CASE pc = "idle" -> 0
      [] pc = "fetch" -> 1
      [] pc = "wait" -> 2
      [] pc = "insert" -> 3
      [] pc = "message" -> 4
      [] pc = "done" -> 5

\* C20: each listed crate is taken from the stream exactly once and in the
\* order of the listing; its task only moves forward, so it issues one
\* fetch, whose result is never replaced (no retry), and does one insert;
\* an insert adds the key of the inserting task and changes no entry that
\* is already there; the map has as many entries as inserts were done.
ExactlyOnce ==
    /\ [](/\ next_crate - 1 = Cardinality({c \in Tasks : task_pc[c] # "idle"})
          /\ Cardinality(DOMAIN crate_n_day_downloads)
                = Cardinality({c \in Tasks : Inserted(c)})
          /\ \A c \in Tasks : crate_downloads[c].pending <=> task_pc[c] \in {"idle", "fetch"})
    /\ [][/\ \A c \in Tasks :
               /\ Rank(task_pc'[c]) >= Rank(task_pc[c])
               /\ (task_pc[c] = "idle" /\ task_pc'[c] # "idle") =>
                     /\ c = next_crate
                     /\ next_crate' = c + 1
                     /\ task_pc'[c] = "fetch"
               /\ ~crate_downloads[c].pending => crate_downloads'[c] = crate_downloads[c]
          /\ next_crate' \in {next_crate, next_crate + 1}
          /\ \A k \in DOMAIN crate_n_day_downloads :
               /\ k \in DOMAIN crate_n_day_downloads'
               /\ crate_n_day_downloads'[k] = crate_n_day_downloads[k]
          /\ crate_n_day_downloads' # crate_n_day_downloads =>
               \E c \in Tasks :
                   /\ task_pc[c] = "insert" /\ task_pc'[c] = "message"
                   /\ crates[c].name \notin DOMAIN crate_n_day_downloads
                   /\ DOMAIN crate_n_day_downloads'
                        = DOMAIN crate_n_day_downloads \cup {crates[c].name}
       ]_vars

\* The scheduler has finished over more crates than the buffer holds, after
\* the fetch of the second crate failed: every crate was spawned and the map
\* has one entry per crate.
ExactlyOnceWitness ==
    /\ main_pc = "output"
    /\ Len(crates) > BufferLimit
    /\ next_crate = Len(crates) + 1
    /\ Failed(2)
    /\ Cardinality(DOMAIN crate_n_day_downloads) = Len(crates)

====
